---- MODULE Spec2Model ----
(***************************************************************************)
(* Model of the worker pool of src/src/lib.rs: ThreadPool (new, execute,   *)
(* Drop), Worker (the thread loop) and the mpsc channel whose receiving    *)
(* end the workers share behind a Mutex.                                   *)
(*                                                                         *)
(* One owner thread constructs the pool, submits jobs through execute and  *)
(* finally drops the pool.  Every worker thread is modelled step by step:  *)
(* lock the receiver, recv, release the guard at the end of the `let`      *)
(* statement, match on the message, run the job (which may return or       *)
(* panic) or break out of the loop.                                        *)
(***************************************************************************)
EXTENDS Naturals, Integers, Sequences, FiniteSets, TLC

\* Largest pool size tried by new(size); size 0 is tried as well.
MaxSize == 2

\* Number of jobs the owner may submit before it drops the pool.
MaxJobs == 3

\* let pool = ThreadPool::new(4) in start_server.
ServerPoolSize == 4

\* Size of the buffer handle_connection reads a request into.
BufferSize == 1024

\* thread::sleep(Duration::from_secs(5)) in the /sleep branch.
SleepSecs == 5

WorkerIds == 0 .. ((IF MaxSize > ServerPoolSize THEN MaxSize ELSE ServerPoolSize) - 1)
JobIds == 1 .. MaxJobs

\* lockHolder value when the Mutex is free.
NoWorker == -1

VARIABLES
    mainPc,      \* position of the owner thread
    size,        \* workers.len() of the pool (0 before construction)
    queue,       \* messages in the mpsc channel, oldest first
    senderAlive, \* the pool's Sender has not been dropped
    lockHolder,  \* worker holding the MutexGuard of the receiver, or NoWorker
    poisoned,    \* the Mutex was poisoned by a panic under the guard
    wpc,         \* position of each worker thread
    msg,         \* the `message` local of each worker thread
    submitted,   \* number of jobs handed to execute so far
    started,     \* per job: how many times job() was invoked
    finished,    \* per job: how many times job() returned
    terms,       \* per worker: Terminate messages it took from the channel
    recvLog,     \* the messages taken from the channel, in the order taken
    sentTerm,    \* Terminate messages sent by drop
    joinIdx,     \* index of the worker drop joins next
    joined,      \* per worker: its JoinHandle was taken and joined
    srvPc,       \* position of start_server ("off" when the pool is used alone)
    accepted,    \* connections start_server has accepted so far
    jobConn,     \* per job: the connection its closure owns (0: none)
    hpc,         \* position of one handle_connection call ("off" when unused)
    buffer,      \* the `buffer` local of handle_connection
    statusLine,  \* the `status_line` chosen by handle_connection
    filename,    \* the `filename` chosen by handle_connection
    delay,       \* seconds handle_connection has slept
    contents,    \* the `contents` String test_helper fills from the file
    written      \* the bytes the connection has accepted from stream.write

\* The pool, its channel and its workers.
poolVars == <<mainPc, size, queue, senderAlive, lockHolder, poisoned, wpc, msg,
              submitted, started, finished, terms, recvLog, sentTerm, joinIdx,
              joined>>

\* The accept loop of start_server.
srvVars == <<srvPc, accepted, jobConn>>

\* One call of handle_connection.
handlerVars == <<hpc, buffer, statusLine, filename, delay, contents, written>>

vars == <<poolVars, srvVars, handlerVars>>

mainVars == <<mainPc, size, senderAlive, submitted, sentTerm, joinIdx, joined,
              srvVars, handlerVars>>

\* enum Message { NewJob(Job), Terminate }
NewJob(j) == [type |-> "NewJob", job |-> j]

Terminate == [type |-> "Terminate", job |-> 0]

NoMsg == [type |-> "None", job |-> 0]

\* The workers the pool owns: ids 0 .. size-1.
Workers == { w \in WorkerIds : w < size }

\* A worker thread that has not finished (neither broke out nor panicked).
Alive(w) == wpc[w] \in {"idle", "locked", "taken", "dispatch", "running"}

LiveWorkers == { w \in Workers : Alive(w) }

\* The Receiver lives in an Arc cloned into every worker closure; the local
\* Arc of new() is gone when new returns, so the Receiver is dropped exactly
\* when the last worker thread has finished.
ReceiverAliveAnyExit == \A w \in Workers : Alive(w)

ReceiverAlive == \E w \in Workers : Alive(w)

\* mpsc::Sender::send on the unbounded channel: appends at the tail.
SendFront(q, m) == <<m>> \o q

Send(q, m) == Append(q, m)

\* Receiver::recv on a non-empty channel: the oldest message is returned and
\* removed.
RecvNewest(q) == [m |-> q[Len(q)], rest |-> SubSeq(q, 1, Len(q) - 1)]

RecvPeek(q) == [m |-> Head(q), rest |-> q]

RecvSplit(q) == [m |-> Head(q), rest |-> Tail(q)]

PoolInit ==
    /\ mainPc = "init"
    /\ size = 0
    /\ queue = <<>>
    /\ senderAlive = FALSE
    /\ lockHolder = NoWorker
    /\ poisoned = FALSE
    /\ wpc = [w \in WorkerIds |-> "none"]
    /\ msg = [w \in WorkerIds |-> NoMsg]
    /\ submitted = 0
    /\ started = [j \in JobIds |-> 0]
    /\ finished = [j \in JobIds |-> 0]
    /\ terms = [w \in WorkerIds |-> 0]
    /\ recvLog = <<>>
    /\ sentTerm = 0
    /\ joinIdx = 0
    /\ joined = [w \in WorkerIds |-> FALSE]

\* start_server is not running.
ServerOff ==
    /\ srvPc = "off"
    /\ accepted = 0
    /\ jobConn = [j \in JobIds |-> 0]

\* No handle_connection call is modelled.
HandlerOff ==
    /\ hpc = "off"
    /\ buffer = <<>>
    /\ statusLine = <<>>
    /\ filename = ""
    /\ delay = 0
    /\ contents = <<>>
    /\ written = <<>>

Init == PoolInit /\ ServerOff /\ HandlerOff

----------------------------------------------------------------------------
(* The owner thread *)

\* new with the spawn loop starting at id 1.
NewOffByOne(n) ==
    /\ mainPc = "init"
    /\ IF n = 0
       THEN /\ mainPc' = "newPanicked"
            /\ UNCHANGED <<size, senderAlive, wpc>>
       ELSE /\ mainPc' = "ready"
            /\ size' = n
            /\ senderAlive' = TRUE
            /\ wpc' = [w \in WorkerIds |->
                          IF 1 <= w /\ w < n THEN "idle" ELSE "none"]
    /\ UNCHANGED <<queue, lockHolder, poisoned, msg, submitted, started,
                   finished, terms, recvLog, sentTerm, joinIdx, joined>>

\* new without the assert.
NewNoAssert(n) ==
    /\ mainPc = "init"
    /\ mainPc' = "ready"
    /\ size' = n
    /\ senderAlive' = TRUE
    /\ wpc' = [w \in WorkerIds |-> IF w < n THEN "idle" ELSE "none"]
    /\ UNCHANGED <<queue, lockHolder, poisoned, msg, submitted, started,
                   finished, terms, recvLog, sentTerm, joinIdx, joined>>

\* ThreadPool::new(n): assert!(size > 0), create the channel, spawn n workers.
New(n) ==
    /\ mainPc = "init"
    /\ IF n = 0
       THEN /\ mainPc' = "newPanicked"
            /\ UNCHANGED <<size, senderAlive, wpc>>
       ELSE /\ mainPc' = "ready"
            /\ size' = n
            /\ senderAlive' = TRUE
            /\ wpc' = [w \in WorkerIds |-> IF w < n THEN "idle" ELSE "none"]
    /\ UNCHANGED <<queue, lockHolder, poisoned, msg, submitted, started,
                   finished, terms, recvLog, sentTerm, joinIdx, joined>>

\* ThreadPool::execute(f): self.sender.send(Message::NewJob(job)).unwrap()
\* send returns Err only when the Receiver is gone; the unwrap then panics in
\* the owner thread, which never uses the pool again.
Execute ==
    /\ mainPc = "ready"
    /\ submitted < MaxJobs
    /\ IF ReceiverAlive
       THEN /\ queue' = Send(queue, NewJob(submitted + 1))
            /\ submitted' = submitted + 1
            /\ UNCHANGED <<mainPc, senderAlive>>
       ELSE /\ mainPc' = "execPanicked"
            /\ senderAlive' = FALSE
            /\ UNCHANGED <<queue, submitted>>
    /\ UNCHANGED <<size, lockHolder, poisoned, wpc, msg, started, finished,
                   terms, recvLog, sentTerm, joinIdx, joined>>

\* Drop::drop is entered (the pool's owner gives the pool up).
DropBegin ==
    /\ mainPc = "ready"
    /\ mainPc' = "dropSend"
    /\ UNCHANGED <<size, queue, senderAlive, lockHolder, poisoned, wpc, msg,
                   submitted, started, finished, terms, recvLog, sentTerm,
                   joinIdx, joined>>

\* Number of Terminate messages the first loop of drop sends.
TerminateCountShort == size - 1

TerminateCountExtra == size + 1

TerminateCount == size

\* for _ in &self.workers { self.sender.send(Message::Terminate).unwrap(); }
DropSend ==
    /\ mainPc = "dropSend"
    /\ IF sentTerm < TerminateCount
       THEN IF ReceiverAlive
            THEN /\ queue' = Send(queue, Terminate)
                 /\ sentTerm' = sentTerm + 1
                 /\ UNCHANGED <<mainPc, senderAlive>>
            ELSE /\ mainPc' = "dropSendPanicked"
                 /\ senderAlive' = FALSE
                 /\ UNCHANGED <<queue, sentTerm>>
       ELSE /\ mainPc' = "dropJoin"
            /\ UNCHANGED <<queue, sentTerm, senderAlive>>
    /\ UNCHANGED <<size, lockHolder, poisoned, wpc, msg, submitted, started,
                   finished, terms, recvLog, joinIdx, joined>>

\* thread.join() returns once the worker thread has finished.
JoinReadyAlways(w) == TRUE

JoinReady(w) == ~Alive(w)

\* for worker in &mut self.workers { ... thread.join().unwrap(); }
\* join returns Err when the thread panicked, and unwrap then panics in drop.
DropJoin ==
    /\ mainPc = "dropJoin"
    /\ IF joinIdx < size
       THEN /\ JoinReady(joinIdx)
            /\ joined' = [joined EXCEPT ![joinIdx] = TRUE]
            /\ IF wpc[joinIdx] = "panicked"
               THEN /\ mainPc' = "dropJoinPanicked"
                    /\ senderAlive' = FALSE
                    /\ UNCHANGED joinIdx
               ELSE /\ joinIdx' = joinIdx + 1
                    /\ UNCHANGED <<mainPc, senderAlive>>
       ELSE /\ mainPc' = "dropped"
            /\ senderAlive' = FALSE
            /\ UNCHANGED <<joinIdx, joined>>
    /\ UNCHANGED <<size, queue, lockHolder, poisoned, wpc, msg, submitted,
                   started, finished, terms, recvLog, sentTerm>>

----------------------------------------------------------------------------
(* A worker thread: loop { let message = receiver.lock().unwrap().recv()   *)
(* .unwrap(); match message { ... } }                                      *)

\* lock() that does not exclude another holder.
WorkerLockNoMutex(w) ==
    /\ wpc[w] = "idle"
    /\ wpc' = [wpc EXCEPT ![w] = "locked"]
    /\ lockHolder' = w
    /\ UNCHANGED <<queue, poisoned, msg, started, finished, terms, recvLog>>
    /\ UNCHANGED mainVars

\* receiver.lock().unwrap()
WorkerLock(w) ==
    /\ wpc[w] = "idle"
    /\ lockHolder = NoWorker
    /\ IF poisoned
       THEN /\ wpc' = [wpc EXCEPT ![w] = "panicked"]
            /\ UNCHANGED lockHolder
       ELSE /\ wpc' = [wpc EXCEPT ![w] = "locked"]
            /\ lockHolder' = w
    /\ UNCHANGED <<queue, poisoned, msg, started, finished, terms, recvLog>>
    /\ UNCHANGED mainVars

\* .recv().unwrap() under the guard: blocks while the channel is empty and
\* the Sender lives; Err (and a panic that poisons the Mutex) when the
\* channel is empty and the Sender is gone.
WorkerRecv(w) ==
    /\ wpc[w] = "locked"
    /\ lockHolder = w
    /\ queue # <<>> \/ ~senderAlive
    /\ IF queue # <<>>
       THEN /\ msg' = [msg EXCEPT ![w] = RecvSplit(queue).m]
            /\ queue' = RecvSplit(queue).rest
            /\ recvLog' = Append(recvLog, RecvSplit(queue).m)
            /\ terms' = [terms EXCEPT ![w] =
                   IF RecvSplit(queue).m.type = "Terminate" THEN @ + 1 ELSE @]
            /\ wpc' = [wpc EXCEPT ![w] = "taken"]
            /\ UNCHANGED <<lockHolder, poisoned>>
       ELSE /\ wpc' = [wpc EXCEPT ![w] = "panicked"]
            /\ poisoned' = TRUE
            /\ lockHolder' = NoWorker
            /\ UNCHANGED <<queue, msg, terms, recvLog>>
    /\ UNCHANGED <<started, finished>>
    /\ UNCHANGED mainVars

\* The guard kept alive into the match (as `while let Ok(m) = lock()...`).
WorkerKeepGuard(w) ==
    /\ wpc[w] = "taken"
    /\ lockHolder = w
    /\ wpc' = [wpc EXCEPT ![w] = "dispatch"]
    /\ UNCHANGED <<queue, lockHolder, poisoned, msg, started, finished, terms,
                   recvLog>>
    /\ UNCHANGED mainVars

\* End of the `let message = ...;` statement: the temporary MutexGuard is
\* dropped, before the match.
WorkerUnlock(w) ==
    /\ wpc[w] = "taken"
    /\ lockHolder = w
    /\ lockHolder' = NoWorker
    /\ wpc' = [wpc EXCEPT ![w] = "dispatch"]
    /\ UNCHANGED <<queue, poisoned, msg, started, finished, terms, recvLog>>
    /\ UNCHANGED mainVars

\* The job handed to a thread of its own instead of being called.
WorkerStartJobDetached(w) ==
    /\ wpc[w] = "dispatch"
    /\ msg[w].type = "NewJob"
    /\ started' = [started EXCEPT ![msg[w].job] = @ + 1]
    /\ msg' = [msg EXCEPT ![w] = NoMsg]
    /\ wpc' = [wpc EXCEPT ![w] = "idle"]
    /\ UNCHANGED <<queue, lockHolder, poisoned, finished, terms, recvLog>>
    /\ UNCHANGED mainVars

\* Message::NewJob(job) => { println!(..); job(); }   -- the call of job
WorkerStartJob(w) ==
    /\ wpc[w] = "dispatch"
    /\ msg[w].type = "NewJob"
    /\ started' = [started EXCEPT ![msg[w].job] = @ + 1]
    /\ wpc' = [wpc EXCEPT ![w] = "running"]
    /\ UNCHANGED <<queue, lockHolder, poisoned, msg, finished, terms, recvLog>>
    /\ UNCHANGED mainVars

\* job() returns; the loop goes round.
WorkerFinishJob(w) ==
    /\ wpc[w] = "running"
    /\ finished' = [finished EXCEPT ![msg[w].job] = @ + 1]
    /\ msg' = [msg EXCEPT ![w] = NoMsg]
    /\ wpc' = [wpc EXCEPT ![w] = "idle"]
    /\ UNCHANGED <<queue, lockHolder, poisoned, started, terms, recvLog>>
    /\ UNCHANGED mainVars

\* job() panics: the worker thread unwinds and ends; nothing catches it.
WorkerJobFaultAbort(w) ==
    /\ wpc[w] = "running"
    /\ wpc' = [v \in WorkerIds |-> IF v < size THEN "panicked" ELSE wpc[v]]
    /\ UNCHANGED <<queue, lockHolder, poisoned, msg, started, finished, terms,
                   recvLog>>
    /\ UNCHANGED mainVars

WorkerJobFault(w) ==
    /\ wpc[w] = "running"
    /\ wpc' = [wpc EXCEPT ![w] = "panicked"]
    /\ UNCHANGED <<queue, lockHolder, poisoned, msg, started, finished, terms,
                   recvLog>>
    /\ UNCHANGED mainVars

\* Where the Terminate arm leaves the worker.
TerminateArmLoops == "idle"

TerminateArm == "exited"

\* Message::Terminate => { println!(..); break; }
WorkerTerminate(w) ==
    /\ wpc[w] = "dispatch"
    /\ msg[w].type = "Terminate"
    /\ wpc' = [wpc EXCEPT ![w] = TerminateArm]
    /\ UNCHANGED <<queue, lockHolder, poisoned, msg, started, finished, terms,
                   recvLog>>
    /\ UNCHANGED mainVars

----------------------------------------------------------------------------

Next ==
    \/ \E n \in 0 .. MaxSize : New(n) /\ UNCHANGED <<srvVars, handlerVars>>
    \/ Execute /\ UNCHANGED <<srvVars, handlerVars>>
    \/ DropBegin /\ UNCHANGED <<srvVars, handlerVars>>
    \/ DropSend /\ UNCHANGED <<srvVars, handlerVars>>
    \/ DropJoin /\ UNCHANGED <<srvVars, handlerVars>>
    \/ \E w \in WorkerIds : WorkerLock(w)
    \/ \E w \in WorkerIds : WorkerRecv(w)
    \/ \E w \in WorkerIds : WorkerUnlock(w)
    \/ \E w \in WorkerIds : WorkerStartJob(w)
    \/ \E w \in WorkerIds : WorkerFinishJob(w)
    \/ \E w \in WorkerIds : WorkerJobFault(w)
    \/ \E w \in WorkerIds : WorkerTerminate(w)

Spec == Init /\ [][Next]_vars

TypeOK ==
    /\ mainPc \in {"init", "ready", "dropSend", "dropJoin", "dropped",
                   "newPanicked", "execPanicked", "dropSendPanicked",
                   "dropJoinPanicked"}
    /\ size \in 0 .. MaxSize
    /\ lockHolder \in WorkerIds \cup {NoWorker}
    /\ submitted \in 0 .. MaxJobs
    /\ \A w \in WorkerIds : wpc[w] \in {"none", "idle", "locked", "taken",
                                        "dispatch", "running", "exited",
                                        "panicked"}

----------------------------------------------------------------------------
(* Runs in which no job panics, under fair scheduling: every thread that   *)
(* can take its next step eventually takes it, drop once entered keeps     *)
(* going, and a job that was started returns.  When the owner calls        *)
(* execute or drops the pool is its own choice and carries no fairness.    *)

NextNoFault ==
    \/ \E n \in 0 .. MaxSize : New(n) /\ UNCHANGED <<srvVars, handlerVars>>
    \/ Execute /\ UNCHANGED <<srvVars, handlerVars>>
    \/ DropBegin /\ UNCHANGED <<srvVars, handlerVars>>
    \/ DropSend /\ UNCHANGED <<srvVars, handlerVars>>
    \/ DropJoin /\ UNCHANGED <<srvVars, handlerVars>>
    \/ \E w \in WorkerIds : WorkerLock(w)
    \/ \E w \in WorkerIds : WorkerRecv(w)
    \/ \E w \in WorkerIds : WorkerUnlock(w)
    \/ \E w \in WorkerIds : WorkerStartJob(w)
    \/ \E w \in WorkerIds : WorkerFinishJob(w)
    \/ \E w \in WorkerIds : WorkerTerminate(w)

\* The next step of worker thread w, whichever it is: its steps exclude one
\* another, so fairness of the thread is weak fairness of this action.
WorkerStepNoFault(w) ==
    \/ WorkerLock(w)
    \/ WorkerRecv(w)
    \/ WorkerUnlock(w)
    \/ WorkerStartJob(w)
    \/ WorkerFinishJob(w)
    \/ WorkerTerminate(w)

Fairness ==
    /\ WF_poolVars(DropSend)
    /\ WF_poolVars(DropJoin)
    /\ \A w \in WorkerIds : WF_poolVars(WorkerStepNoFault(w))

FairSpec == Init /\ [][NextNoFault]_vars /\ Fairness

\* The same fairness over the runs in which jobs may panic.
FairFaultSpec == Init /\ [][Next]_vars /\ Fairness

----------------------------------------------------------------------------
(* One call of handle_connection with test_helper as its `test` argument,  *)
(* the payload of every job start_server submits.  Bytes are one-character *)
(* strings; Nul is the zero byte the buffer is initialised with.           *)

Nul == "NUL"

\* let get = b"GET / HTTP/1.1\r\n";
GetPatternShort ==
    <<"G", "E", "T", " ", "/">>

GetPattern ==
    <<"G", "E", "T", " ", "/", " ", "H", "T", "T", "P", "/", "1", ".",
      "1", "\r", "\n">>

\* let sleep = b"GET /sleep HTTP/1.1\r\n";
SleepPattern ==
    <<"G", "E", "T", " ", "/", "s", "l", "e", "e", "p", " ", "H", "T",
      "T", "P", "/", "1", ".", "1", "\r", "\n">>

OkLine ==
    <<"H", "T", "T", "P", "/", "1", ".", "1", " ", "2", "0", "0", " ",
      "O", "K">>

NotFoundLine ==
    <<"H", "T", "T", "P", "/", "1", ".", "1", " ", "4", "0", "4", " ",
      "N", "O", "T", " ", "F", "O", "U", "N", "D">>

HelloFile == "hello.html"

NotFoundFile == "404.html"

\* Longest run of extra bytes a modelled client sends after a request line.
MaxTail == 1

\* Longest response body file modelled.
MaxBody == 10

\* The requests a client may send: the two recognised request lines, each of
\* them with one byte changed at any one place, each followed by up to
\* MaxTail further bytes.  A short read delivers any prefix of them.
Corrupted(p) == { [p EXCEPT ![i] = "X"] : i \in 1 .. Len(p) }

Tails == { [i \in 1 .. n |-> "X"] : n \in 0 .. MaxTail }

Requests ==
    { p \o t : p \in {GetPattern, SleepPattern} \cup Corrupted(GetPattern)
                        \cup Corrupted(SleepPattern),
               t \in Tails }

\* The contents the body file may have when it is read.
Bodies == { [i \in 1 .. n |-> "a"] : n \in {0, 1, MaxBody - 1, MaxBody} }

\* let mut buffer = [0; 1024]; then read put the first k bytes of req in it.
FillBuffer(req, k) ==
    [i \in 1 .. BufferSize |-> IF i <= k THEN req[i] ELSE Nul]

\* <[u8]>::starts_with
StartsWith(b, p) == Len(p) <= Len(b) /\ \A i \in 1 .. Len(p) : b[i] = p[i]

\* The if / else if / else of handle_connection.
Classify(b) ==
    IF StartsWith(b, GetPattern)
    THEN [status |-> OkLine, file |-> HelloFile, sleep |-> FALSE]
    ELSE IF StartsWith(b, SleepPattern)
         THEN [status |-> OkLine, file |-> HelloFile, sleep |-> TRUE]
         ELSE [status |-> NotFoundLine, file |-> NotFoundFile, sleep |-> FALSE]

DigitChars == <<"0", "1", "2", "3", "4", "5", "6", "7", "8", "9">>

\* Display for usize, as format!("{}", len) prints it.
RECURSIVE ToDecimal(_)
ToDecimal(n) ==
    IF n < 10 THEN <<DigitChars[n + 1]>>
    ELSE ToDecimal(n \div 10) \o <<DigitChars[(n % 10) + 1]>>

ContentLengthHeader ==
    <<"C", "o", "n", "t", "e", "n", "t", "-", "L", "e", "n", "g", "t",
      "h", ":", " ">>

CRLF == <<"\r", "\n">>

\* format!("{}\r\nContent-Length: {}\r\n\r\n{}", status_line, len, contents)
FormatResponse(status, body) ==
    status \o CRLF \o ContentLengthHeader \o ToDecimal(Len(body))
           \o CRLF \o CRLF \o body

HandlerInit ==
    /\ PoolInit
    /\ ServerOff
    /\ hpc = "read"
    /\ buffer = <<>>
    /\ statusLine = <<>>
    /\ filename = ""
    /\ delay = 0
    /\ contents = <<>>
    /\ written = <<>>

\* let mut buffer = [0; 1024]; stream.read(&mut buffer).unwrap();
\* One read call: it delivers the first k bytes of what the client sent, for
\* some k, or fails, and the unwrap panics.
HRead ==
    /\ hpc = "read"
    /\ \E ok \in BOOLEAN :
         IF ok
         THEN /\ \E req \in Requests : \E k \in 0 .. Len(req) :
                    buffer' = FillBuffer(req, k)
              /\ hpc' = "classify"
         ELSE /\ buffer' = FillBuffer(<<>>, 0)
              /\ hpc' = "panicked"
    /\ UNCHANGED <<statusLine, filename, delay, contents, written>>
    /\ UNCHANGED <<poolVars, srvVars>>

\* The tests on the buffer; the get and the else branch yield the pair at
\* once, the sleep branch sleeps first.
HClassify ==
    /\ hpc = "classify"
    /\ IF Classify(buffer).sleep
       THEN /\ hpc' = "sleep"
            /\ UNCHANGED <<statusLine, filename>>
       ELSE /\ hpc' = "load"
            /\ statusLine' = Classify(buffer).status
            /\ filename' = Classify(buffer).file
    /\ UNCHANGED <<buffer, delay, contents, written>>
    /\ UNCHANGED <<poolVars, srvVars>>

\* thread::sleep(Duration::from_secs(5)); ("HTTP/1.1 200 OK", "hello.html")
HSleep ==
    /\ hpc = "sleep"
    /\ delay' = delay + SleepSecs
    /\ statusLine' = Classify(buffer).status
    /\ filename' = Classify(buffer).file
    /\ hpc' = "load"
    /\ UNCHANGED <<buffer, contents, written>>
    /\ UNCHANGED <<poolVars, srvVars>>

\* *contents = tokio::task::spawn(read_file(filename)).await.unwrap();
\* read_to_string yields the whole file, or fails and con.unwrap() panics.
HLoad ==
    /\ hpc = "load"
    /\ \/ \E b \in Bodies : contents' = b /\ hpc' = "write"
       \/ contents' = contents /\ hpc' = "panicked"
    /\ UNCHANGED <<buffer, statusLine, filename, delay, written>>
    /\ UNCHANGED <<poolVars, srvVars>>

\* The counts a single Write::write call on the stream may report.
WriteCounts(r) == 1 .. Len(r)

\* stream.write(response.as_bytes()).unwrap(): one write call; it accepts the
\* first n bytes of the response for some n, and the count is not looked at.
HWrite ==
    /\ hpc = "write"
    /\ \/ \E n \in WriteCounts(FormatResponse(statusLine, contents)) :
            /\ written' = SubSeq(FormatResponse(statusLine, contents), 1, n)
            /\ hpc' = "flush"
       \/ written' = written /\ hpc' = "panicked"
    /\ UNCHANGED <<buffer, statusLine, filename, delay, contents>>
    /\ UNCHANGED <<poolVars, srvVars>>

\* stream.flush().unwrap(); the function returns and the stream is dropped.
HFlush ==
    /\ hpc = "flush"
    /\ hpc' = "done"
    /\ UNCHANGED <<buffer, statusLine, filename, delay, contents, written>>
    /\ UNCHANGED <<poolVars, srvVars>>

HandlerNext ==
    \/ HRead
    \/ HClassify
    \/ HSleep
    \/ HLoad
    \/ HWrite
    \/ HFlush

HandlerSpec == HandlerInit /\ [][HandlerNext]_vars

----------------------------------------------------------------------------
(* start_server, from the point where bind has succeeded: it builds a pool *)
(* of ServerPoolSize workers and runs the accept loop.  A failed accept    *)
(* makes stream.unwrap() panic; the unwinding drops `pool`, which runs     *)
(* Drop::drop.  A panic inside that drop, or a panic of execute followed   *)
(* by the drop's own failing send, is a panic while panicking: the process *)
(* aborts and every thread stops where it is.                              *)

ServerInit ==
    /\ PoolInit
    /\ HandlerOff
    /\ srvPc = "start"
    /\ accepted = 0
    /\ jobConn = [j \in JobIds |-> 0]

\* let pool = ThreadPool::new(4);
SrvNew ==
    /\ srvPc = "start"
    /\ New(ServerPoolSize)
    /\ srvPc' = "accept"
    /\ UNCHANGED <<accepted, jobConn, handlerVars>>

\* listener.incoming() yields Ok(stream); stream.unwrap() gives the stream.
SrvAcceptOk ==
    /\ srvPc = "accept"
    /\ accepted < MaxJobs
    /\ accepted' = accepted + 1
    /\ srvPc' = "submit"
    /\ UNCHANGED <<jobConn, poolVars, handlerVars>>

\* listener.incoming() yields Err; stream.unwrap() panics and the unwinding
\* enters the drop of the pool.
SrvAcceptFail ==
    /\ srvPc = "accept"
    /\ DropBegin
    /\ srvPc' = "unwind"
    /\ UNCHANGED <<accepted, jobConn, handlerVars>>

\* pool.execute(|| { ... handle_connection(stream, ...) }): the closure owns
\* the stream just accepted.
SrvSubmit ==
    /\ srvPc = "submit"
    /\ Execute
    /\ IF mainPc' = "execPanicked"
       THEN /\ srvPc' = "aborted"
            /\ UNCHANGED jobConn
       ELSE /\ srvPc' = "accept"
            /\ jobConn' = [jobConn EXCEPT ![submitted + 1] = accepted]
    /\ UNCHANGED <<accepted, handlerVars>>

\* The first loop of drop, run by the unwinding.
SrvDropSend ==
    /\ srvPc = "unwind"
    /\ DropSend
    /\ srvPc' = IF mainPc' = "dropSendPanicked" THEN "aborted" ELSE "unwind"
    /\ UNCHANGED <<accepted, jobConn, handlerVars>>

\* The second loop of drop, run by the unwinding; when drop returns the
\* panic leaves start_server.
SrvDropJoin ==
    /\ srvPc = "unwind"
    /\ DropJoin
    /\ srvPc' = IF mainPc' = "dropJoinPanicked" THEN "aborted"
                ELSE IF mainPc' = "dropped" THEN "exited" ELSE "unwind"
    /\ UNCHANGED <<accepted, jobConn, handlerVars>>

\* The process is still there for its worker threads to run.
ProcessRuns == srvPc # "aborted"

ServerNext ==
    \/ SrvNew
    \/ SrvAcceptOk
    \/ SrvAcceptFail
    \/ SrvSubmit
    \/ SrvDropSend
    \/ SrvDropJoin
    \/ \E w \in WorkerIds : ProcessRuns /\ WorkerLock(w)
    \/ \E w \in WorkerIds : ProcessRuns /\ WorkerRecv(w)
    \/ \E w \in WorkerIds : ProcessRuns /\ WorkerUnlock(w)
    \/ \E w \in WorkerIds : ProcessRuns /\ WorkerStartJob(w)
    \/ \E w \in WorkerIds : ProcessRuns /\ WorkerFinishJob(w)
    \/ \E w \in WorkerIds : ProcessRuns /\ WorkerJobFault(w)
    \/ \E w \in WorkerIds : ProcessRuns /\ WorkerTerminate(w)

ServerSpec == ServerInit /\ [][ServerNext]_vars

----------------------------------------------------------------------------
(* Helpers of the properties *)

Submitted == 1 .. submitted

\* The messages sent so far, in send order: the jobs, then drop's Terminates.
SentSeq ==
    [i \in 1 .. (submitted + sentTerm) |->
        IF i <= submitted THEN NewJob(i) ELSE Terminate]

IsPrefix(a, b) == Len(a) <= Len(b) /\ \A i \in 1 .. Len(a) : a[i] = b[i]

\* Job j has been taken from the channel by some worker.
Taken(j) == \E i \in 1 .. Len(recvLog) : recvLog[i] = NewJob(j)

TermTaken == \E i \in 1 .. Len(recvLog) : recvLog[i] = Terminate

\* A worker has honored a Terminate: it consumed one and broke out of its loop.
TermHonored == \E w \in Workers : wpc[w] = "exited"

MainPanicked ==
    mainPc \in {"newPanicked", "execPanicked", "dropSendPanicked",
                "dropJoinPanicked"}

----------------------------------------------------------------------------

\* C1: with no job panicking and fair scheduling, every job submitted through
\* execute is eventually run to its end, and no job is ever invoked more than
\* once.
C1_ExactlyOnce ==
    /\ [](\A j \in JobIds : started[j] <= 1 /\ finished[j] <= started[j])
    /\ \A j \in JobIds : (submitted >= j) ~> (finished[j] = 1)

\* C1 witness: all MaxJobs jobs were submitted to a pool and each has run once.
C1_Witness ==
    /\ submitted = MaxJobs
    /\ \A j \in JobIds : started[j] = 1 /\ finished[j] = 1

\* C2 as stated: a job does not start before every job submitted earlier has
\* started.
C2_StartOrder ==
    \A j1, j2 \in Submitted : (j1 < j2 /\ started[j2] > 0) => started[j1] > 0

\* C2 amended: a job is not taken from the channel before every job submitted
\* earlier has been taken, and in a pool of one worker it does not start before
\* the earlier job has started.
C2_TakeOrder ==
    /\ \A i1, i2 \in 1 .. Len(recvLog) :
         (i1 < i2 /\ recvLog[i1].type = "NewJob" /\ recvLog[i2].type = "NewJob")
            => recvLog[i1].job < recvLog[i2].job
    /\ \A j1, j2 \in Submitted : (j1 < j2 /\ Taken(j2)) => Taken(j1)
    /\ size = 1 => C2_StartOrder

\* C2 witness: a later job has started while an earlier one, already taken by
\* another worker, has not.
C2_Witness ==
    \E j1, j2 \in Submitted :
        /\ j1 < j2
        /\ started[j2] = 1
        /\ started[j1] = 0
        /\ Taken(j1)

\* C3 as stated: when a worker honors a Terminate, every submitted job has run
\* to completion.
C3_DoneBeforeAnyTerminate ==
    TermHonored => \A j \in Submitted : finished[j] = 1

\* C3 amended: every job enqueued before drop has been taken from the channel
\* before any worker consumes a Terminate, and has run to completion when drop
\* returns; a worker may honor its Terminate while another worker still runs
\* such a job.
C3_DoneBeforeDropReturns ==
    /\ TermTaken => \A j \in Submitted : Taken(j)
    /\ mainPc = "dropped" => \A j \in Submitted : finished[j] = 1

\* C3 witness: drop has returned on a pool that had all MaxJobs jobs pending
\* in the channel when drop started sending.
C3_Witness ==
    /\ mainPc = "dropped"
    /\ submitted = MaxJobs
    /\ size > 1
    /\ recvLog[1] = NewJob(1)
    /\ \A j \in JobIds : finished[j] = 1

\* C4: no Terminate leaves the channel while a job enqueued before drop is
\* still in it, and a worker that holds a job has consumed no Terminate.
C4_JobsLeaveBeforeTerminate ==
    /\ \A i1, i2 \in 1 .. Len(recvLog) :
         (recvLog[i1] = Terminate /\ recvLog[i2].type = "NewJob") => i2 < i1
    /\ TermTaken =>
         \A i \in 1 .. Len(queue) : queue[i].type # "NewJob"
    /\ \A w \in Workers : msg[w].type = "NewJob" => terms[w] = 0

\* C4 witness: a Terminate has been taken after jobs were taken.
C4_Witness ==
    /\ Len(recvLog) > MaxJobs
    /\ recvLog[1].type = "NewJob"
    /\ recvLog[Len(recvLog)] = Terminate

\* C5: when drop has returned, every worker of the pool has been joined, its
\* thread has ended, and it has consumed exactly one Terminate; drop is still
\* in its join loop while a worker is idle, receiving or running.
C5_AllJoined ==
    mainPc = "dropped" =>
        /\ joinIdx = size
        /\ \A w \in Workers :
             /\ joined[w]
             /\ wpc[w] = "exited"
             /\ terms[w] = 1

\* C5 witness: drop has returned on a pool of MaxSize workers that ran jobs.
C5_Witness ==
    /\ mainPc = "dropped"
    /\ size = MaxSize
    /\ submitted > 0

\* C6 as stated: the only pool operations that fault are new(0) and a failed
\* channel send; drop never faults at its join step, also when a worker died
\* from a job's panic.
C6_DropNeverFaultsAtJoin ==
    MainPanicked =>
        mainPc \in {"newPanicked", "execPanicked", "dropSendPanicked"}

\* C7: a job's panic ends only the worker that ran it: the channel, the lock
\* and every other worker are left as they were, the Mutex is never poisoned
\* nor held by a dead worker, messages keep leaving in send order, a live
\* worker can always go on, and the set of live workers only shrinks.
C7_FaultIsolation ==
    /\ [](/\ ~poisoned
          /\ lockHolder # NoWorker => Alive(lockHolder)
          /\ IsPrefix(recvLog, SentSeq)
          /\ (LiveWorkers # {} /\ queue # <<>>) =>
                \E w \in LiveWorkers : wpc[w] # "idle" \/ lockHolder = NoWorker)
    /\ [][\A w \in WorkerIds :
            (wpc[w] = "running" /\ wpc'[w] = "panicked") =>
                /\ queue' = queue
                /\ lockHolder' = lockHolder
                /\ lockHolder # w
                /\ msg' = msg
                /\ \A v \in WorkerIds \ {w} : wpc'[v] = wpc[v]
                /\ Cardinality(LiveWorkers') = Cardinality(LiveWorkers) - 1]_vars
    /\ [][mainPc # "init" => LiveWorkers' \subseteq LiveWorkers]_vars

\* C7 witness: a worker died from a job's panic and another worker has since
\* taken and finished a later job.
C7_Witness ==
    \E w \in Workers : \E j \in Submitted :
        /\ wpc[w] = "panicked"
        /\ msg[w] = NewJob(j)
        /\ j < submitted
        /\ finished[submitted] = 1
        /\ Cardinality(LiveWorkers) = size - 1

TermsInLog == Cardinality({ i \in 1 .. Len(recvLog) : recvLog[i] = Terminate })

TermsInQueue == Cardinality({ i \in 1 .. Len(queue) : queue[i] = Terminate })

\* C8 as stated: whenever drop is past its send loop or has ended, it has sent
\* exactly size Terminate messages.
C8_AlwaysSendsAll ==
    mainPc \in {"dropJoin", "dropped", "dropJoinPanicked", "dropSendPanicked"}
        => sentTerm = size

\* C8 amended: drop sends at most size Terminate messages and exactly size
\* when its send loop completes (it sends fewer only when a send fails because
\* every worker has already ended); each worker consumes at most one
\* Terminate, no Terminate is lost or duplicated, and a worker that consumed
\* one is on its way out of the loop or has exited.
C8_OneTerminatePerWorker ==
    /\ sentTerm <= size
    /\ mainPc \in {"init", "ready", "newPanicked", "execPanicked"} => sentTerm = 0
    /\ mainPc \in {"dropJoin", "dropped", "dropJoinPanicked"} => sentTerm = size
    /\ (mainPc = "dropSendPanicked" /\ sentTerm < size) => LiveWorkers = {}
    /\ TermsInLog + TermsInQueue = sentTerm
    /\ TermsInLog = Cardinality({ w \in Workers : terms[w] = 1 })
    /\ \A w \in Workers :
         /\ terms[w] <= 1
         /\ terms[w] = 1 => wpc[w] \in {"taken", "dispatch", "exited"}
         /\ wpc[w] = "exited" => terms[w] = 1

\* C8 witness: drop sent MaxSize Terminates and each worker has consumed one.
C8_Witness ==
    /\ size = MaxSize
    /\ sentTerm = MaxSize
    /\ \A w \in Workers : terms[w] = 1 /\ wpc[w] = "exited"

\* C9: execute panics only when no worker thread of the pool is left; while
\* one lives the send succeeds whatever the channel holds.
C9_ExecuteFailsOnlyWhenAllGone ==
    mainPc = "execPanicked" => LiveWorkers = {}

\* C9 witness: execute has panicked on a pool of several workers, after each
\* of them died from a job's panic.
C9_Witness ==
    /\ mainPc = "execPanicked"
    /\ size > 1
    /\ \A w \in Workers : wpc[w] = "panicked"

\* C10: execute appends exactly one NewJob at the tail of the channel and
\* changes nothing else: no worker's position or message, not the lock, no
\* queued message; the owner is back in its ready state.
C10_ExecuteFrame ==
    [][submitted' # submitted =>
          /\ submitted' = submitted + 1
          /\ queue' = Append(queue, NewJob(submitted + 1))
          /\ mainPc' = "ready"
          /\ UNCHANGED <<wpc, msg, lockHolder, poisoned, started, finished,
                         terms, recvLog, size, senderAlive>>]_vars

\* C10 witness: execute has returned while its job is still queued and every
\* worker is busy running an earlier job.
C10_Witness ==
    /\ mainPc = "ready"
    /\ size = MaxSize
    /\ \A w \in Workers : wpc[w] = "running"
    /\ queue # <<>>
    /\ queue[Len(queue)] = NewJob(submitted)
    /\ started[submitted] = 0

\* The workers the pool's Vec holds: those whose thread was spawned.
Spawned == { w \in WorkerIds : wpc[w] # "none" }

\* C11: when new(n) has returned with n > 0, the pool owns exactly the n
\* workers 0 .. n-1, each waiting for its first message until one is sent,
\* and no later step adds or removes a worker or changes the size.
C11_ExactlyNWorkers ==
    /\ [](mainPc \notin {"init", "newPanicked"} =>
            /\ size > 0
            /\ Spawned = 0 .. (size - 1)
            /\ Cardinality(Spawned) = size)
    /\ []((mainPc = "ready" /\ submitted = 0) =>
            \A w \in Spawned :
                wpc[w] \in {"idle", "locked"} /\ msg[w] = NoMsg)
    /\ [][(mainPc = "init" /\ mainPc' = "ready") =>
            \A w \in 0 .. (size' - 1) : wpc'[w] = "idle"]_vars
    /\ [][mainPc # "init" => (size' = size /\ Spawned' = Spawned)]_vars

\* C11 witness: a pool of MaxSize workers late in its life, with a worker
\* dead, one exited and drop past its send loop.
C11_Witness ==
    /\ size = MaxSize
    /\ mainPc = "dropJoin"
    /\ \E w \in Workers : wpc[w] = "panicked"
    /\ \E w \in Workers : wpc[w] = "exited"

\* C12: new(0) panics with no worker spawned and no channel created, and no
\* pool with zero workers ever exists.
C12_ZeroSizeFails ==
    /\ mainPc = "newPanicked" =>
          /\ size = 0
          /\ Spawned = {}
          /\ ~senderAlive
          /\ queue = <<>>
    /\ mainPc \notin {"init", "newPanicked"} => (size > 0 /\ Spawned # {})

\* C12 witness: new(0) has panicked.
C12_Witness ==
    /\ mainPc = "newPanicked"
    /\ size = 0
    /\ Spawned = {}

\* Job j died with the worker that ran it.
Faulted(j) == \E w \in Workers : wpc[w] = "panicked" /\ msg[w] = NewJob(j)

\* The jobs that were called and have neither returned nor panicked.
Executing == { j \in JobIds : started[j] > finished[j] /\ ~Faulted(j) }

AllBusy == size > 0 /\ \A w \in Workers : wpc[w] = "running"

\* C13: at most size jobs are executing at any moment; while every worker is
\* running a job no further job starts; and every submitted job eventually
\* starts unless no worker is left alive.
C13_BoundedParallelism ==
    /\ [](Cardinality(Executing) <= size)
    /\ [][AllBusy => started' = started]_vars
    /\ \A j \in JobIds :
          (submitted >= j) ~> (started[j] = 1 \/ LiveWorkers = {})

\* C13 witness: the job submitted while all MaxSize workers were running has
\* finished after waiting in the channel.
C13_Witness ==
    /\ size = MaxSize
    /\ submitted = MaxJobs
    /\ \A j \in JobIds : finished[j] = 1

\* C17: a worker holds the Mutex exactly while it is between lock() and the
\* end of the let statement, never while it matches on or runs a job, so the
\* lock is free or held by a worker that is not running a job.
C17_NoLockWhileRunning ==
    /\ \A w \in WorkerIds :
          /\ lockHolder = w <=> wpc[w] \in {"locked", "taken"}
          /\ wpc[w] \in {"dispatch", "running"} => lockHolder # w
    /\ \A w, v \in Workers :
          (wpc[w] = "running" /\ wpc[v] = "idle" /\ lockHolder = NoWorker)
             => ENABLED WorkerLock(v)

\* C17 witness: while one worker is still running its job, another worker
\* has locked the receiver and taken the next job.
C17_Witness ==
    \E w, v \in Workers :
        /\ wpc[w] = "running"
        /\ wpc[v] = "taken"
        /\ lockHolder = v
        /\ msg[v].type = "NewJob"
        /\ msg[v].job > msg[w].job

\* The workers inside lock() .. end of the let statement.
InCritical == { w \in Workers : wpc[w] \in {"locked", "taken"} }

Holders(m) == { w \in Workers : msg[w] = m /\ wpc[w] # "none" }

Occurrences(m) == Cardinality({ i \in 1 .. Len(recvLog) : recvLog[i] = m })

\* C18: at most one worker is inside the locked section at a time; every job
\* leaves the channel at most once and is then with exactly one worker until
\* it returns; every Terminate taken is with exactly one worker; and messages
\* leave the channel in the order they were sent.
C18_OneReceiver ==
    /\ Cardinality(InCritical) <= 1
    /\ \A j \in JobIds :
          /\ Occurrences(NewJob(j)) <= 1
          /\ Cardinality(Holders(NewJob(j))) <= 1
          /\ (Taken(j) /\ finished[j] = 0) =>
                Cardinality(Holders(NewJob(j))) = 1
          /\ ~Taken(j) => Holders(NewJob(j)) = {}
    /\ Cardinality(Holders(Terminate)) = TermsInLog
    /\ IsPrefix(recvLog, SentSeq)
    /\ Len(recvLog) + Len(queue) = Len(SentSeq)

\* C18 witness: every worker of a pool of MaxSize holds a message of its own
\* and a further message is still queued.
C18_Witness ==
    /\ size = MaxSize
    /\ \A w \in Workers : msg[w].type = "NewJob"
    /\ \A w, v \in Workers : w # v => msg[w] # msg[v]
    /\ queue # <<>>

\* The worker states of the spec's diagram.
WState(w) ==
    CASE wpc[w] \in {"idle", "locked"} -> "Idle"
      [] wpc[w] \in {"taken", "dispatch"} -> "Received"
      [] wpc[w] = "running" -> "Executing"
      [] wpc[w] = "exited" -> "Terminated"
      [] wpc[w] = "panicked" -> "Dead"
      [] OTHER -> "None"

\* C19 as stated: the only moves of a worker are Idle -> (message received)
\* -> Executing -> Idle and Idle -> (message received) -> Terminated.
C19_OnlyIdleExecTerminated ==
    [][\A w \in WorkerIds :
          WState(w)' # WState(w) =>
             <<WState(w), WState(w)'>> \in
                {<<"None", "Idle">>, <<"Idle", "Received">>,
                 <<"Received", "Executing">>, <<"Executing", "Idle">>,
                 <<"Received", "Terminated">>}]_vars

\* C19 amended: as stated, plus the move Executing -> Dead when the job
\* panics; a worker starts Idle, enters Executing only with a NewJob it
\* received and calls that job once, enters Terminated only with a Terminate
\* it received, and once Terminated or Dead it takes no message and runs no
\* job.
C19_WorkerStateMachine ==
    /\ [][\A w \in WorkerIds :
            WState(w)' # WState(w) =>
               /\ <<WState(w), WState(w)'>> \in
                     {<<"None", "Idle">>, <<"Idle", "Received">>,
                      <<"Received", "Executing">>, <<"Executing", "Idle">>,
                      <<"Received", "Terminated">>, <<"Executing", "Dead">>}
               /\ WState(w)' = "Executing" =>
                     /\ msg[w].type = "NewJob"
                     /\ started[msg[w].job] = 0
                     /\ started'[msg[w].job] = 1
               /\ WState(w)' = "Terminated" => msg[w] = Terminate
               /\ WState(w) = "Received" =>
                     WState(w)' = (IF msg[w] = Terminate
                                   THEN "Terminated" ELSE "Executing")]_vars
    /\ [][\A w \in WorkerIds :
            WState(w) \in {"Terminated", "Dead"} =>
               /\ wpc'[w] = wpc[w]
               /\ msg'[w] = msg[w]
               /\ terms'[w] = terms[w]
               /\ lockHolder' # w]_vars

\* C19 witness: one worker ran a job and then terminated on a Terminate,
\* another died from a job's panic, and messages were taken after both.
C19_Witness ==
    \E w, v \in Workers :
        /\ wpc[w] = "exited"
        /\ wpc[v] = "panicked"
        /\ finished[1] = 1
        /\ mainPc = "dropJoinPanicked"

\* C20: drop sends all its Terminates before it joins a worker and joins in
\* ascending id order, and with no job panicking and every started job
\* returning, drop once entered returns.
C20_ShutdownTerminates ==
    /\ []((joinIdx > 0 \/ \E w \in WorkerIds : joined[w]) =>
            (sentTerm = size /\ mainPc \in {"dropJoin", "dropped"}))
    /\ [](\A w \in WorkerIds : joined[w] <=> w < joinIdx)
    /\ (mainPc = "dropSend") ~> (mainPc = "dropped")

\* C20 witness: drop has returned on a pool of MaxSize workers that still had
\* all MaxJobs jobs to take when drop was entered.
C20_Witness ==
    /\ mainPc = "dropped"
    /\ size = MaxSize
    /\ submitted = MaxJobs
    /\ joinIdx = MaxSize
    /\ Len(recvLog) = MaxJobs + MaxSize

\* The request lines and status lines as the spec spells them.
SpecGetLine ==
    <<"G", "E", "T", " ", "/", " ", "H", "T", "T", "P", "/", "1", ".",
      "1", "\r", "\n">>

SpecSleepLine ==
    <<"G", "E", "T", " ", "/", "s", "l", "e", "e", "p", " ", "H", "T",
      "T", "P", "/", "1", ".", "1", "\r", "\n">>

SpecOkLine ==
    <<"H", "T", "T", "P", "/", "1", ".", "1", " ", "2", "0", "0", " ",
      "O", "K">>

SpecNotFoundLine ==
    <<"H", "T", "T", "P", "/", "1", ".", "1", " ", "4", "0", "4", " ",
      "N", "O", "T", " ", "F", "O", "U", "N", "D">>

BufferIsGet == SubSeq(buffer, 1, Len(SpecGetLine)) = SpecGetLine

BufferIsSleep == SubSeq(buffer, 1, Len(SpecSleepLine)) = SpecSleepLine

\* The classification with its two tests taken in the other order.
ClassifySleepFirst(b) ==
    IF StartsWith(b, SleepPattern)
    THEN [status |-> OkLine, file |-> HelloFile, sleep |-> TRUE]
    ELSE IF StartsWith(b, GetPattern)
         THEN [status |-> OkLine, file |-> HelloFile, sleep |-> FALSE]
         ELSE [status |-> NotFoundLine, file |-> NotFoundFile, sleep |-> FALSE]

\* C14: once the buffer is read, its first bytes decide the outcome: the get
\* line gives 200 OK, hello.html and no delay; the sleep line gives the same
\* after SleepSecs seconds; every other buffer gives 404 NOT FOUND and
\* 404.html with no delay; the two lines never both match and the order of
\* the two tests does not matter.
C14_Classification ==
    hpc \in {"classify", "sleep", "load", "write", "flush", "done"} =>
        /\ Len(buffer) = BufferSize
        /\ ~(BufferIsGet /\ BufferIsSleep)
        /\ Classify(buffer) = ClassifySleepFirst(buffer)
        /\ hpc = "sleep" => (BufferIsSleep /\ delay = 0)
        /\ hpc \in {"load", "write", "flush", "done"} =>
              IF BufferIsGet
              THEN /\ statusLine = SpecOkLine
                   /\ filename = "hello.html"
                   /\ delay = 0
              ELSE IF BufferIsSleep
                   THEN /\ statusLine = SpecOkLine
                        /\ filename = "hello.html"
                        /\ delay = 5
                   ELSE /\ statusLine = SpecNotFoundLine
                        /\ filename = "404.html"
                        /\ delay = 0

\* C14 witness: a request for /sleep followed by a further byte was answered
\* after the delay.
C14_Witness ==
    /\ hpc = "done"
    /\ BufferIsSleep
    /\ buffer[Len(SpecSleepLine) + 1] = "X"
    /\ delay = 5

SpecHeader ==
    <<"C", "o", "n", "t", "e", "n", "t", "-", "L", "e", "n", "g", "t",
      "h", ":", " ">>

DigitValue(c) == CHOOSE d \in 0 .. 9 : DigitChars[d + 1] = c

IsDigit(c) == \E d \in 0 .. 9 : DigitChars[d + 1] = c

RECURSIVE ParseDecimal(_)
ParseDecimal(ds) ==
    IF ds = <<>> THEN 0
    ELSE 10 * ParseDecimal(SubSeq(ds, 1, Len(ds) - 1)) + DigitValue(ds[Len(ds)])

\* The bytes r read as status CRLF "Content-Length: " digits CRLF CRLF body,
\* the digits being the decimal length of body with no leading zero.
IsExactResponse(r, status, body) ==
    LET h == Len(status) + 2 + Len(SpecHeader)
        d == Len(r) - h - 4 - Len(body)
    IN  /\ d >= 1
        /\ SubSeq(r, 1, Len(status)) = status
        /\ SubSeq(r, Len(status) + 1, Len(status) + 2) = <<"\r", "\n">>
        /\ SubSeq(r, Len(status) + 3, h) = SpecHeader
        /\ \A i \in (h + 1) .. (h + d) : IsDigit(r[i])
        /\ ParseDecimal(SubSeq(r, h + 1, h + d)) = Len(body)
        /\ d > 1 => r[h + 1] # "0"
        /\ SubSeq(r, h + d + 1, h + d + 4) = <<"\r", "\n", "\r", "\n">>
        /\ SubSeq(r, h + d + 5, Len(r)) = body

\* C15 as stated: the bytes written to the connection are exactly the status
\* line, CRLF, Content-Length with the decimal length of the body, CRLF CRLF
\* and the body, and nothing is written before the file has been read.
C15_ExactResponse ==
    /\ hpc \in {"flush", "done"} => IsExactResponse(written, statusLine, contents)
    /\ written # <<>> => hpc \in {"flush", "done"}

\* C16 as stated: every accepted connection is handed to the pool as one job,
\* in accept order, the job owning that connection; and when the accept loop
\* has ended on a failed accept, drop has sent its Terminates and joined
\* every worker, and every job submitted before has been executed.
C16_AcceptLoop ==
    /\ submitted <= accepted
    /\ accepted <= submitted + 1
    /\ srvPc \in {"accept", "unwind", "exited"} => submitted = accepted
    /\ \A j \in JobIds : jobConn[j] = (IF j <= submitted THEN j ELSE 0)
    /\ srvPc \in {"exited", "aborted"} =>
          /\ sentTerm = size
          /\ \A w \in Workers : joined[w]
          /\ \A j \in Submitted : started[j] = 1
====
